---------------------------- MODULE Spec2Model ----------------------------
(***************************************************************************)
(* TorchInference::process and TorchInference::copyPatchToOutput of        *)
(* src/src/SupraLib/Processing/TorchInference.h: the patch loop that tiles *)
(* the last tensor axis into overlapping windows, runs the model on each   *)
(* window and copies the valid part of each result into the output buffer. *)
(*                                                                         *)
(* Tensors are modelled by their shapes (a function 0..3 -> extent); the   *)
(* sample values and clampCast are not part of this model.                 *)
(***************************************************************************)
EXTENDS Integers, Naturals, Sequences, FiniteSets, TLC

(***************************************************************************)
(* Bounds of the model.                                                    *)
(***************************************************************************)
MaxPixels == 10
MaxPatchSize == 8
MaxOverlap == 3
MaxLines == 2
MaxPatches == 14

(***************************************************************************)
(* Unsigned arithmetic.  size_t and uint32_t wrap around; TLC's integers   *)
(* are 32 bit wide, so both moduli are scaled down, keeping                *)
(* U32Mod < SizeMod and both far above every extent of the model: a        *)
(* difference a - b with a < b lands beyond every buffer, as it does with  *)
(* 2^32 and 2^64.                                                          *)
(***************************************************************************)
U32Mod == 2^20
SizeMod == 2^24

SizeSub(a, b) == (a - b + SizeMod) % SizeMod
SizeAdd(a, b) == (a + b) % SizeMod
U32Mul(a, b) == (a * b) % U32Mod
\* a size_t passed where torch takes an int64_t
ToInt64(v) == IF v >= SizeMod \div 2 THEN v - SizeMod ELSE v

Min(a, b) == IF a < b THEN a ELSE b

(***************************************************************************)
(* Layouts: four axis tokens in some order, positions 0..3.                *)
(***************************************************************************)
Tokens == {"C", "D", "H", "W"}
Layouts == {l \in [0..3 -> Tokens] : \A i, j \in 0..3 : i # j => l[i] # l[j]}
DefaultLayout == [i \in 0..3 |-> IF i = 0 THEN "C" ELSE IF i = 1 THEN "D"
                                 ELSE IF i = 2 THEN "H" ELSE "W"]

\* std::string::find of one token
find(layout, tok) == CHOOSE i \in 0..3 : layout[i] = tok

\* permutation[i] is the index, in currentLayout, of the axis at position i
\* of outLayout
layoutPermutation(currentLayout, outLayout) ==
    [i \in 0..3 |-> find(currentLayout, outLayout[i])]

\* tensor.permute(permutation) on a shape
changeLayout(shape, currentLayout, outLayout) ==
    [i \in 0..3 |-> shape[layoutPermutation(currentLayout, outLayout)[i]]]

\* at::Tensor::slice(dim 3, start, end) on a shape, int64 arguments
slice3(shape, start, end) ==
    LET size == shape[3]
        s0 == IF ToInt64(start) < 0 THEN ToInt64(start) + size ELSE ToInt64(start)
        e0 == IF ToInt64(end) < 0 THEN ToInt64(end) + size ELSE ToInt64(end)
        s1 == IF s0 < 0 THEN 0 ELSE IF s0 >= size THEN size ELSE s0
        e1 == IF e0 < s1 THEN s1 ELSE IF e0 >= size THEN size ELSE e0
    IN  [shape EXCEPT ![3] = e1 - s1]

(***************************************************************************)
(* The dtypes of a model output tensor after line 156.                     *)
(***************************************************************************)
CopiedDTypes == {"kInt8", "kUInt8", "kInt16", "kInt32", "kInt64", "kFloat", "kDouble"}
DTypes == CopiedDTypes \cup {"kBool"}

VARIABLES
    NDEBUG,                          \* build: assert() compiled out
    m_torchModule,                   \* the three modules: loaded or nullptr
    m_inputNormalizationModule,
    m_outputDenormalizationModule,
    arg,                             \* the arguments of the call of process()
    inferencePatchSize,              \* the by-value parameter, rewritten at line 63
    pc,                              \* "entry", "loop", "returned", "aborted", "crashed"
    pDataOut,                        \* "nullptr" or "allocated"
    writes,                          \* number of writes to each element of pDataOut
    startPixelValid,
    lastValidPixels,
    patches,                         \* the patches run so far, in order
    log,                             \* diagnostics logged
    outOfBounds                      \* reads/writes outside a tensor or the buffer

vars == <<NDEBUG, m_torchModule, m_inputNormalizationModule,
          m_outputDenormalizationModule, arg, inferencePatchSize, pc, pDataOut,
          writes, startPixelValid, lastValidPixels, patches, log, outOfBounds>>

numPixels == arg.inputSize.x

\* the shape process() wraps the input into (line 55)
inputShape == [i \in 0..3 |-> IF i = 0 THEN 1 ELSE IF i = 1 THEN arg.inputSize.z
                              ELSE IF i = 2 THEN arg.inputSize.y ELSE arg.inputSize.x]

\* the output extent the caller passes: the input extents in finalLayout
OutputSizeFor(inputSize, currentLayout, finalLayout) ==
    LET full == changeLayout([i \in 0..3 |-> IF i = 0 THEN 1
                                  ELSE IF i = 1 THEN inputSize.z
                                  ELSE IF i = 2 THEN inputSize.y ELSE inputSize.x],
                             currentLayout, finalLayout)
    IN  [x |-> full[3], y |-> full[2], z |-> full[1]]

BufferSize == arg.outputSize.x * arg.outputSize.y * arg.outputSize.z

(***************************************************************************)
(* The patch planner: lines 73-106 of one loop iteration.                  *)
(***************************************************************************)
\* (variant: the comparison of line 77 made strict)
noPatchingStrict(spv, nPix, pSize) == spv = 0 /\ SizeSub(nPix, spv) < pSize

\* line 77: no patching is necessary
noPatching(spv, nPix, pSize) == spv = 0 /\ SizeSub(nPix, spv) <= pSize

\* (variant: line 91 without the padding on the top)
lastPatchFitsUnpadded(spv, nPix, pSize, overlap) == SizeSub(nPix, spv) <= pSize

\* line 91: what is left, padded on the top, fits into one patch
lastPatchFits(spv, nPix, pSize, overlap) ==
    SizeSub(nPix, SizeSub(spv, overlap)) <= pSize

\* (variant: line 96 without the trimming)
lastValidUntrimmed(patchSize, overlap) == patchSize

\* line 96: the last patch is trimmed on the top only
lastValid(patchSize, overlap) == SizeSub(patchSize, overlap)

\* (variant: line 104 one too short)
middleValidOffByOne(patchSize, overlap) ==
    SizeSub(SizeSub(patchSize, U32Mul(2, overlap)), 1)

\* line 104: a patch in the middle is trimmed on both sides
middleValid(patchSize, overlap) == SizeSub(patchSize, U32Mul(2, overlap))

planPatch(spv, nPix, pSize, overlap) ==
    IF noPatching(spv, nPix, pSize)
    THEN [startPixel |-> 0, patchSize |-> SizeSub(nPix, spv),
          patchSizeValid |-> SizeSub(nPix, spv), startPixelValid |-> spv]
    ELSE IF spv = 0
    THEN [startPixel |-> 0, patchSize |-> pSize,
          patchSizeValid |-> SizeSub(pSize, overlap), startPixelValid |-> spv]
    ELSE IF lastPatchFits(spv, nPix, pSize, overlap)
    THEN [startPixel |-> SizeSub(spv, overlap),
          patchSize |-> SizeSub(nPix, SizeSub(spv, overlap)),
          patchSizeValid |-> lastValid(SizeSub(nPix, SizeSub(spv, overlap)), overlap),
          startPixelValid |-> spv]
    ELSE [startPixel |-> SizeSub(spv, overlap), patchSize |-> pSize,
          patchSizeValid |-> middleValid(pSize, overlap), startPixelValid |-> spv]

\* (variant: the cursor advanced by the whole patch)
advanceByPatchSize(spv, p) == SizeAdd(spv, p.patchSize)

\* lines 71, 106: startPixelValid += lastValidPixels
advance(spv, p) == SizeAdd(spv, p.patchSizeValid)

(***************************************************************************)
(* The model is a black box that keeps the extent of every axis: it takes  *)
(* a tensor in modelInputLayout and returns one in modelOutputLayout.      *)
(***************************************************************************)
forward(shape) == changeLayout(shape, arg.modelInputLayout, arg.modelOutputLayout)

\* lines 109-156: the shape of `output` handed to copyPatchToOutput
patchOutputShape(p) ==
    LET inputDataPatch == changeLayout(
            slice3(inputShape, p.startPixel, SizeAdd(p.startPixel, p.patchSize)),
            arg.currentLayout, arg.modelInputLayout)
    IN  changeLayout(forward(inputDataPatch), arg.modelOutputLayout, arg.finalLayout)

(***************************************************************************)
(* copyPatchToOutput, lines 233-265: the three index ranges.               *)
(***************************************************************************)
copyRanges(permutation, outputSize, spv, sp, valid) ==
    LET narrowedRange == [start |-> spv, end |-> SizeAdd(spv, valid), offset |-> sp]
        full == [slice |-> [start |-> 0, end |-> outputSize.z, offset |-> 0],
                 line |-> [start |-> 0, end |-> outputSize.y, offset |-> 0],
                 pixel |-> [start |-> 0, end |-> outputSize.x, offset |-> 0]]
    IN  IF permutation[1] = 3
        THEN [full EXCEPT !.slice = narrowedRange] @@ [narrowed |-> {"slice"}]
        ELSE IF permutation[2] = 3
        THEN [full EXCEPT !.line = narrowedRange] @@ [narrowed |-> {"line"}]
        ELSE IF permutation[3] = 3
        THEN [full EXCEPT !.pixel = narrowedRange] @@ [narrowed |-> {"pixel"}]
        ELSE full @@ [narrowed |-> {}]

\* the ranges copyPatchToOutput uses for patch p
rangesOf(p) ==
    copyRanges(layoutPermutation(arg.modelOutputLayout, arg.finalLayout),
               arg.outputSize, p.startPixelValid, p.startPixel, p.patchSizeValid)

(***************************************************************************)
(* copyPatchToOutput, lines 267-283: the copy loops.                       *)
(***************************************************************************)
flatIndex(s, l, p) == s * arg.outputSize.y * arg.outputSize.x + l * arg.outputSize.x + p

loopsRun(r) ==
    r.slice.start < r.slice.end /\ r.line.start < r.line.end /\ r.pixel.start < r.pixel.end

\* the coordinates the loops visit whose write lands inside the buffer
\* (a flat index below BufferSize needs s < z, l < y*z and p < BufferSize)
coordsInBuffer(r) ==
    {c \in (r.slice.start .. Min(r.slice.end, arg.outputSize.z) - 1)
           \X (r.line.start .. Min(r.line.end, arg.outputSize.y * arg.outputSize.z) - 1)
           \X (r.pixel.start .. Min(r.pixel.end, BufferSize) - 1) :
        flatIndex(c[1], c[2], c[3]) < BufferSize}

\* some visited coordinate writes at or beyond the end of the buffer
writesOutside(r) ==
    loopsRun(r) /\
    flatIndex(r.slice.end - 1, r.line.end - 1, r.pixel.end - 1) >= BufferSize

axisReadOutside(rg, extent) ==
    SizeSub(rg.start, rg.offset) >= extent \/ SizeSub(rg.end - 1, rg.offset) >= extent

\* some visited coordinate reads outAccessor outside the tensor `shape`
readsOutside(r, shape) ==
    loopsRun(r) /\
    (shape[0] < 1 \/ axisReadOutside(r.slice, shape[1])
     \/ axisReadOutside(r.line, shape[2]) \/ axisReadOutside(r.pixel, shape[3]))

\* the buffer's write counts after the copy loops of one call
copied(w, r) ==
    [i \in DOMAIN w |->
        w[i] + Cardinality({c \in coordsInBuffer(r) : flatIndex(c[1], c[2], c[3]) = i})]

(***************************************************************************)
(* The calls the model explores.  PlannerCalls: every size, patch size and *)
(* overlap up to the bounds, default layouts.  LayoutCalls: every triple   *)
(* of layouts, for a patched and an unpatched call.                        *)
(***************************************************************************)
MakeArg(x, y, z, cur, mIn, mOut, fin, pSize, overlap, dtype) ==
    [inputSize |-> [x |-> x, y |-> y, z |-> z],
     outputSize |-> OutputSizeFor([x |-> x, y |-> y, z |-> z], cur, fin),
     currentLayout |-> cur, modelInputLayout |-> mIn,
     modelOutputLayout |-> mOut, finalLayout |-> fin,
     inferencePatchSize |-> pSize, inferencePatchOverlap |-> overlap,
     outputDType |-> dtype]

PlannerCalls ==
    {MakeArg(x, MaxLines, 1, DefaultLayout, DefaultLayout, DefaultLayout, DefaultLayout,
             pSize, overlap, dtype) :
        x \in 0..MaxPixels, pSize \in 0..MaxPatchSize, overlap \in 0..MaxOverlap,
        dtype \in {"kFloat", "kBool"}}

LayoutSizes == {<<4, 3, 1>>, <<3, 0, 1>>}

LayoutCalls ==
    {MakeArg(sz[1], 2, 3, cur, mOut, mOut, fin, sz[2], sz[3], "kFloat") :
        sz \in LayoutSizes, cur \in Layouts, mOut \in Layouts, fin \in Layouts}

Start ==
    /\ inferencePatchSize = arg.inferencePatchSize
    /\ pc = "entry"
    /\ pDataOut = "nullptr"
    /\ writes = <<>>
    /\ startPixelValid = 0
    /\ lastValidPixels = 0
    /\ patches = <<>>
    /\ log = {}
    /\ outOfBounds = {}

PlannerInit ==
    /\ arg \in PlannerCalls
    /\ NDEBUG \in BOOLEAN
    /\ m_torchModule \in BOOLEAN
    /\ m_inputNormalizationModule \in BOOLEAN
    /\ m_outputDenormalizationModule \in BOOLEAN
    /\ Start

LayoutInit ==
    /\ arg \in LayoutCalls
    /\ NDEBUG = TRUE
    /\ m_torchModule = TRUE
    /\ m_inputNormalizationModule = TRUE
    /\ m_outputDenormalizationModule = TRUE
    /\ Start

Init == PlannerInit \/ LayoutInit

\* line 61-64
effectivePatchSize == IF arg.inferencePatchSize = 0 THEN numPixels % U32Mod
                      ELSE arg.inferencePatchSize

\* the condition of the assert of line 65
patchSizeAsserted == effectivePatchSize > U32Mul(arg.inferencePatchOverlap, 2)

noModelLog ==
    (IF m_torchModule THEN {} ELSE {"no model loaded"})
    \cup (IF m_inputNormalizationModule THEN {} ELSE {"no normalization module present"})
    \cup (IF m_outputDenormalizationModule THEN {} ELSE {"no denormalization module present"})

\* (variant: line 47 without the null check)
modelLoadedUnchecked == TRUE

\* line 47: m_torchModule != nullptr
modelLoaded == m_torchModule

\* line 43: assert(m_torchModule != nullptr) in a build with assertions
ModelAssertFails ==
    /\ pc = "entry"
    /\ ~NDEBUG
    /\ ~modelLoaded
    /\ pc' = "aborted"
    /\ UNCHANGED <<NDEBUG, m_torchModule, m_inputNormalizationModule,
                   m_outputDenormalizationModule, arg, inferencePatchSize, pDataOut,
                   writes, startPixelValid, lastValidPixels, patches, log, outOfBounds>>

\* lines 47, 209-219: no model, else branch, return pDataOut
NoModel ==
    /\ pc = "entry"
    /\ NDEBUG
    /\ ~modelLoaded
    /\ log' = log \cup noModelLog
    /\ pc' = "returned"
    /\ UNCHANGED <<NDEBUG, m_torchModule, m_inputNormalizationModule,
                   m_outputDenormalizationModule, arg, inferencePatchSize, pDataOut,
                   writes, startPixelValid, lastValidPixels, patches, outOfBounds>>

\* lines 51-59 throw (cudaSafeCall, from_blob): caught at 197-207, return pDataOut
SetupThrows ==
    /\ pc = "entry"
    /\ modelLoaded
    /\ log' = log \cup {"error while running model"}
    /\ pc' = "returned"
    /\ UNCHANGED <<NDEBUG, m_torchModule, m_inputNormalizationModule,
                   m_outputDenormalizationModule, arg, inferencePatchSize, pDataOut,
                   writes, startPixelValid, lastValidPixels, patches, outOfBounds>>

\* line 65: assert(inferencePatchSize > inferencePatchOverlap * 2) fails
PatchSizeAssertFails ==
    /\ pc = "entry"
    /\ modelLoaded
    /\ ~NDEBUG
    /\ ~patchSizeAsserted
    /\ inferencePatchSize' = effectivePatchSize
    /\ pc' = "aborted"
    /\ UNCHANGED <<NDEBUG, m_torchModule, m_inputNormalizationModule,
                   m_outputDenormalizationModule, arg, pDataOut,
                   writes, startPixelValid, lastValidPixels, patches, log, outOfBounds>>

\* lines 47-71: the setup succeeds, the buffer is allocated, the loop starts
Allocate ==
    /\ pc = "entry"
    /\ modelLoaded
    /\ NDEBUG \/ patchSizeAsserted
    /\ inferencePatchSize' = effectivePatchSize
    /\ pDataOut' = "allocated"
    /\ writes' = [i \in 0..(BufferSize - 1) |-> 0]
    /\ startPixelValid' = 0
    /\ lastValidPixels' = 0
    /\ pc' = "loop"
    /\ UNCHANGED <<NDEBUG, m_torchModule, m_inputNormalizationModule,
                   m_outputDenormalizationModule, arg, patches, log, outOfBounds>>

\* the patch of the current iteration
currentPatch ==
    planPatch(startPixelValid, numPixels, inferencePatchSize, arg.inferencePatchOverlap)

\* lines 71-194: one iteration of the patch loop, model and copy succeed
RunPatch ==
    /\ pc = "loop"
    /\ startPixelValid < numPixels
    /\ Len(patches) < MaxPatches
    /\ LET p == currentPatch
           r == rangesOf(p)
           copies == arg.outputDType \in CopiedDTypes
           bad == IF ~copies THEN {}
                  ELSE (IF writesOutside(r) THEN {"write"} ELSE {})
                       \cup (IF readsOutside(r, patchOutputShape(p)) THEN {"read"} ELSE {})
       IN  /\ lastValidPixels' = p.patchSizeValid
           /\ startPixelValid' = advance(startPixelValid, p)
           /\ patches' = Append(patches,
                  [startPixel |-> p.startPixel, patchSize |-> p.patchSize,
                   startPixelValid |-> p.startPixelValid,
                   patchSizeValid |-> p.patchSizeValid,
                   narrowed |-> r.narrowed, copied |-> copies])
           /\ writes' = IF copies THEN copied(writes, r) ELSE writes
           /\ outOfBounds' = outOfBounds \cup bad
           \* an access out of bounds is undefined: the call goes on or dies
           /\ pc' \in (IF bad = {} THEN {"loop"} ELSE {"loop", "crashed"})
    /\ UNCHANGED <<NDEBUG, m_torchModule, m_inputNormalizationModule,
                   m_outputDenormalizationModule, arg, inferencePatchSize, pDataOut, log>>

\* lines 109-156 throw on this patch: caught at 197-207, return pDataOut
PatchThrows ==
    /\ pc = "loop"
    /\ startPixelValid < numPixels
    /\ lastValidPixels' = currentPatch.patchSizeValid
    /\ log' = log \cup {"error while running model"}
    /\ pc' = "returned"
    /\ UNCHANGED <<NDEBUG, m_torchModule, m_inputNormalizationModule,
                   m_outputDenormalizationModule, arg, inferencePatchSize, pDataOut,
                   writes, startPixelValid, patches, outOfBounds>>

\* lines 71, 195, 219: the loop condition fails, return pDataOut
Finish ==
    /\ pc = "loop"
    /\ startPixelValid >= numPixels
    /\ pc' = "returned"
    /\ UNCHANGED <<NDEBUG, m_torchModule, m_inputNormalizationModule,
                   m_outputDenormalizationModule, arg, inferencePatchSize, pDataOut,
                   writes, startPixelValid, lastValidPixels, patches, log, outOfBounds>>

\* lines 71, 195: the loop condition fails and the final cudaSafeCall throws:
\* caught at 197-207, return pDataOut
FinishThrows ==
    /\ pc = "loop"
    /\ startPixelValid >= numPixels
    /\ log' = log \cup {"error while running model"}
    /\ pc' = "returned"
    /\ UNCHANGED <<NDEBUG, m_torchModule, m_inputNormalizationModule,
                   m_outputDenormalizationModule, arg, inferencePatchSize, pDataOut,
                   writes, startPixelValid, lastValidPixels, patches, outOfBounds>>

Next ==
    \/ ModelAssertFails
    \/ NoModel
    \/ SetupThrows
    \/ PatchSizeAssertFails
    \/ Allocate
    \/ RunPatch
    \/ PatchThrows
    \/ Finish
    \/ FinishThrows

Spec == Init /\ [][Next]_vars

\* process() is sequential code and runs on while it has a step to take; the
\* planner calls with both transforms loaded and a float model output
FairInit ==
    /\ PlannerInit
    /\ m_inputNormalizationModule /\ m_outputDenormalizationModule
    /\ arg.outputDType = "kFloat"

FairSpec == FairInit /\ [][Next]_vars /\ WF_vars(Next)

(***************************************************************************)
(* Vocabulary of the properties.                                           *)
(***************************************************************************)
ErrorLogged == "error while running model" \in log

\* the patch loop ran to its end and process() returned the buffer
Completed == pc = "returned" /\ pDataOut = "allocated" /\ ~ErrorLogged

\* half-open ranges as pairs, in plain integers
Window(p) == <<p.startPixel, p.startPixel + p.patchSize>>
Valid(p) == <<p.startPixelValid, p.startPixelValid + p.patchSizeValid>>

CeilDiv(a, b) == (a + b - 1) \div b

\* the output axis (slice, line, pixel) that holds the axis process() slices
tiledOutputAxis ==
    LET pos == find(arg.finalLayout, arg.currentLayout[3])
    IN  IF pos = 1 THEN "slice" ELSE IF pos = 2 THEN "line"
        ELSE IF pos = 3 THEN "pixel" ELSE "none"

(***************************************************************************)
(* C1: with patchSize > 2*overlap and numPixels >= 1 the valid sub-windows *)
(* are emitted in strictly increasing order, the first starts at 0, each   *)
(* starts where the previous one ended, none passes numPixels, and when    *)
(* the loop has ended the last one ends exactly at numPixels.              *)
(***************************************************************************)
C1_ValidWindowsTile ==
    (patchSizeAsserted /\ numPixels >= 1) =>
        /\ \A i \in 1..Len(patches) :
              /\ patches[i].patchSizeValid >= 1
              /\ Valid(patches[i])[1] = (IF i = 1 THEN 0 ELSE Valid(patches[i - 1])[2])
              /\ Valid(patches[i])[2] <= numPixels
        /\ Completed =>
              /\ Len(patches) >= 1
              /\ Valid(patches[Len(patches)])[2] = numPixels

C1_Witness ==
    /\ patchSizeAsserted
    /\ Completed
    /\ Len(patches) >= 3
    /\ arg.inferencePatchOverlap >= 1

(***************************************************************************)
(* C2: with patchSize > 2*overlap and numPixels >= 1 every patch window    *)
(* contains its valid sub-window, is at most inferencePatchSize long and   *)
(* lies inside [0, numPixels); startPixelValid - overlap is never negative *)
(* where it is computed.                                                   *)
(***************************************************************************)
C2_WindowContainsValid ==
    (patchSizeAsserted /\ numPixels >= 1) =>
        \A i \in 1..Len(patches) :
            LET p == patches[i] IN
            /\ Window(p)[1] <= Valid(p)[1]
            /\ Valid(p)[2] <= Window(p)[2]
            /\ p.patchSize <= inferencePatchSize
            /\ Window(p)[2] <= numPixels
            /\ i > 1 => /\ p.startPixelValid - arg.inferencePatchOverlap >= 0
                        /\ p.startPixel = p.startPixelValid - arg.inferencePatchOverlap

C2_Witness ==
    /\ patchSizeAsserted
    /\ arg.inferencePatchOverlap >= 1
    /\ \E i \in 2..Len(patches) :
          /\ patches[i].patchSize = inferencePatchSize
          /\ Window(patches[i])[2] < numPixels

(***************************************************************************)
(* C3: with patchSize > 2*overlap every iteration advances                 *)
(* startPixelValid by a strictly positive patchSizeValid, and at most      *)
(* ceil(numPixels / (patchSize - 2*overlap)) + 2 patches are emitted, so   *)
(* the loop ends (the model's cap on the number of patches never stops an  *)
(* iteration): from every start the call leaves the loop.                  *)
(***************************************************************************)
C3_Invariant ==
    patchSizeAsserted =>
        /\ \A i \in 1..Len(patches) :
              /\ patches[i].patchSizeValid >= 1
              /\ patches[i].patchSizeValid < SizeMod \div 2
              /\ i > 1 => patches[i].startPixelValid > patches[i - 1].startPixelValid
        /\ Len(patches) >= 1 => startPixelValid = Valid(patches[Len(patches)])[2]
        /\ Len(patches) <=
              CeilDiv(numPixels, effectivePatchSize - 2 * arg.inferencePatchOverlap) + 2
        /\ Len(patches) < MaxPatches

C3_ProgressAndBound ==
    [](C3_Invariant) /\ (patchSizeAsserted ~> pc \notin {"entry", "loop"})

C3_Witness ==
    /\ patchSizeAsserted
    /\ Completed
    /\ numPixels = MaxPixels
    /\ effectivePatchSize - 2 * arg.inferencePatchOverlap = 1
    /\ Len(patches) >= 4

(***************************************************************************)
(* C4 as stated: for numPixels=10, patchSize=4, overlap=1 the patches are  *)
(* window[0,4) valid[0,3); window[2,6) valid[3,5); window[4,8) valid[5,7); *)
(* window[6,10) valid[7,9); and then a further patch with window [8,10).   *)
(***************************************************************************)
Scenario10_4_1 ==
    numPixels = 10 /\ arg.inferencePatchSize = 4 /\ arg.inferencePatchOverlap = 1

C4_AsStated ==
    (Scenario10_4_1 /\ Completed) =>
        /\ Len(patches) >= 5
        /\ Window(patches[1]) = <<0, 4>> /\ Valid(patches[1]) = <<0, 3>>
        /\ Window(patches[2]) = <<2, 6>> /\ Valid(patches[2]) = <<3, 5>>
        /\ Window(patches[3]) = <<4, 8>> /\ Valid(patches[3]) = <<5, 7>>
        /\ Window(patches[4]) = <<6, 10>> /\ Valid(patches[4]) = <<7, 9>>
        /\ Window(patches[5]) = <<8, 10>>

(***************************************************************************)
(* C4 amended: for numPixels=10, patchSize=4, overlap=1 the patches are,   *)
(* in order, window[0,4) valid[0,3); window[2,6) valid[3,5); window[4,8)   *)
(* valid[5,7); window[6,10) valid[7,10); and no further patch is emitted.  *)
(***************************************************************************)
Expected10_4_1 ==
    << <<0, 4, 0, 3>>, <<2, 6, 3, 5>>, <<4, 8, 5, 7>>, <<6, 10, 7, 10>> >>

C4_FourPatches ==
    Scenario10_4_1 =>
        /\ Len(patches) <= 4
        /\ \A i \in 1..Len(patches) :
              Window(patches[i]) \o Valid(patches[i]) = Expected10_4_1[i]
        /\ Completed => Len(patches) = 4

C4_Witness == Scenario10_4_1 /\ Completed /\ Len(patches) = 4

(***************************************************************************)
(* C5 as stated: when inferencePatchSize is 0 or numPixels <= patch size,  *)
(* for every overlap and every numPixels >= 1 a call whose model is loaded *)
(* and does not throw runs exactly one patch, with window and valid        *)
(* sub-window both [0, numPixels).                                         *)
(***************************************************************************)
NoPatchingCall ==
    /\ numPixels >= 1
    /\ arg.inferencePatchSize = 0 \/ numPixels <= arg.inferencePatchSize

WholeAxis(p) == Window(p) = <<0, numPixels>> /\ Valid(p) = <<0, numPixels>>

C5_AsStated ==
    (NoPatchingCall /\ modelLoaded /\ ~ErrorLogged
        /\ pc \in {"returned", "aborted", "crashed"}) =>
        Len(patches) = 1 /\ WholeAxis(patches[1])

(***************************************************************************)
(* C5 amended: when inferencePatchSize is 0 or numPixels <= patch size and *)
(* numPixels >= 1, a call that gets past the assert of line 65 (effective  *)
(* patch size > 2*overlap, or assertions compiled out, then for every      *)
(* overlap) runs exactly one patch, whose window and valid sub-window are  *)
(* both [0, numPixels); a call the assert stops runs none.                 *)
(***************************************************************************)
C5_SinglePatch ==
    NoPatchingCall =>
        /\ Len(patches) <= 1
        /\ \A i \in 1..Len(patches) : WholeAxis(patches[i])
        /\ (Completed \/ pc = "crashed") => Len(patches) = 1
        /\ (modelLoaded /\ ~ErrorLogged /\ pc = "returned") => Len(patches) = 1
        /\ pc = "aborted" => ~NDEBUG /\ (~modelLoaded \/ ~patchSizeAsserted)

C5_Witness ==
    /\ numPixels = 5 /\ arg.inferencePatchSize = 8 /\ arg.inferencePatchOverlap = 1
    /\ Completed
    /\ Len(patches) = 1

(***************************************************************************)
(* C6 as stated: when the model execution step throws on a patch (the     *)
(* call returns with an error logged before the cursor reached numPixels), *)
(* process() returns a null output, never the partially written buffer.    *)
(***************************************************************************)
C6_FailureReturnsNull ==
    (ErrorLogged /\ pc = "returned" /\ startPixelValid < numPixels) =>
        pDataOut = "nullptr"

C8_NoIterationWithoutProgress ==
    (~patchSizeAsserted /\ numPixels >= 1) =>
        \A i \in 1..Len(patches) :
            /\ patches[i].patchSizeValid >= 1
            /\ patches[i].patchSizeValid < SizeMod \div 2

(***************************************************************************)
(* C9 as stated: every call of copyPatchToOutput narrows exactly one of    *)
(* the slice, line and pixel ranges, the one of the output axis that holds *)
(* the axis process() sliced (the token at position 3 of currentLayout).   *)
(***************************************************************************)
C9_NarrowsTiledAxis ==
    \A i \in 1..Len(patches) :
        patches[i].copied => patches[i].narrowed = {tiledOutputAxis}

(***************************************************************************)
(* C10 as stated: in a call with patchSize > 2*overlap whose output holds  *)
(* the tiled axis with extent numPixels, no write leaves the buffer, no    *)
(* read leaves the patch's output tensor, no element is written twice, and *)
(* after the last patch every element has been written exactly once.       *)
(***************************************************************************)
C10_ExactCoverage ==
    (patchSizeAsserted /\ arg.outputDType \in CopiedDTypes
        /\ tiledOutputAxis # "none" /\ pDataOut = "allocated") =>
        /\ outOfBounds = {}
        /\ \A i \in DOMAIN writes : writes[i] <= 1
        /\ Completed => \A i \in DOMAIN writes : writes[i] = 1

=============================================================================
